---- MODULE Spec2Model ----
(***************************************************************************)
(* A model of the perception toolkit's StreamCapture element               *)
(* (src/src/elements/stream-capture/stream-capture.ts), of its barcode     *)
(* detector wrapper (src/unnamed/part_001, detect) and of the demo page    *)
(* (src/unnamed/part_000, init).                                           *)
(*                                                                         *)
(* The browser is single threaded: a handler runs to its next await, and   *)
(* the callbacks of one animation frame run one after the other, with the  *)
(* same timestamp, before anything else does.  An animation frame is       *)
(* modelled by BeginFrame, which moves the requested callbacks to          *)
(* `running`, and by one step per callback; calls from the page and        *)
(* events of the platform happen only between frames.                      *)
(*                                                                         *)
(* Objects (stream, video, canvas, context) are named by the number of the *)
(* start() call that received or created them; 0 is undefined and, for the *)
(* context, -1 is null.  Only the elements the StreamCapture still refers  *)
(* to are kept: `cv` is the canvas of this.canvas and `dims` the           *)
(* dimensions of this.video.                                               *)
(*                                                                         *)
(* Time is counted in animation frames.  The code uses `now` and           *)
(* this.lastCapture only in `now - this.lastCapture > this.captureRate`,   *)
(* so the model keeps that difference, `elapsed`, which stops growing at   *)
(* Late, a value above every capture rate.  Scales are integers.  The      *)
(* reticle of setReticleOrientation is absent from this build's template   *)
(* (html = ''), and the `flipped` style changes no state below.            *)
(***************************************************************************)
EXTENDS Integers, Sequences, FiniteSets, TLC

\* ---------------------------------------------------------------- bounds
MaxStarts == 2
MaxCalls == 3
MaxImages == 2
MaxRuns == 2
MaxCards == 2
NumTracks == 2
NumFrames == 2

\* the values the page assigns to the public fields
ScaleValues == {1, 2}
RateValues == {0, 1}
\* the dimensions a video reports once its metadata is known
VideoSizes == {<<2, 3>>}

Sessions == 1..MaxStarts
Undefined == 0
NullCtx == 0 - 1
NoDims == <<0, 0>>
Blank == 0
\* an elapsed time above every capture rate
Late == (CHOOSE r \in RateValues : \A q \in RateValues : q <= r) + 1

VARIABLES
  captureScale, captureRate, capturePng, paused,   \* public fields
  stream, video, canvas, ctx,                      \* private fields
  elapsed,     \* now - this.lastCapture, at most Late
  starts,      \* start() calls that accepted a stream so far
  tracks,      \* tracks[s]: the live tracks of stream s
  cv,          \* the canvas element of this.canvas: attached, size, content
  dims,        \* <<videoWidth, videoHeight>> of the video element of this.video
  startScale,  \* startScale[s]: `scale` of the closure of start() call s
  handler,     \* handler[s]: the 'playing' listener of start() call s
  pending,     \* callbacks requested for the next animation frame
  running,     \* callbacks of the current frame still to run
  frame,       \* the picture the camera shows during this animation frame
  images,      \* PNG images whose load has not completed
  emit,        \* history: the frame events emitted
  op           \* history: the last operation, what it threw, fired, returned

\* the barcode wrapper (src/unnamed/part_001)
VARIABLES
  detector,            \* the module's memoized detector: 0, or its number
  detectors,           \* the detectors constructed so far, in order
  hasBarcodeDetector,  \* 'BarcodeDetector' in window
  calls                \* calls[c]: the c-th call of detect(), in order of call

detectVars == <<detector, detectors, hasBarcodeDetector, calls>>

\* the demo page (src/unnamed/part_000); a run of init() is a load of the page
VARIABLES
  onboardedStore,  \* idbKeyval's value for 'onboarded': TRUE, or FALSE for none
  runs,            \* runs[r]: the r-th run of init(), in order of call
  cards,           \* cards[r]: the children of .container in the page of run r
  evt              \* history: the last event handled by a page's listeners

demoVars == <<onboardedStore, runs, cards, evt>>

captureVars == <<captureScale, captureRate, capturePng, paused, stream, video,
                 canvas, ctx, elapsed, starts, tracks, cv, dims, startScale,
                 handler, pending, running, frame, images, emit, op>>

\* ------------------------------------------------------- platform helpers
Truthy(x) == x > 0

clamp(value, min) == IF value < min THEN min ELSE value

Later(t) == IF t < Late THEN t + 1 ELSE Late

NoEvents == <<>>
Event(type, detail) == [type |-> type, detail |-> detail]
Op(name, arg, threw, fired, result) ==
  [name |-> name, arg |-> arg, threw |-> threw, fired |-> fired, result |-> result]
NoResult == <<>>
Fired(type) == \E i \in 1..Len(op.fired) : op.fired[i].type = type

\* ctx.getImageData(0, 0, canvas.width, canvas.height)
getImageData(c, size) == [kind |-> "ImageData", pixels |-> c.content, size |-> size]
\* a toDataURL() that is given the wrong type
toDataURLJpeg(c) == [mime |-> "image/jpeg", pixels |-> c.content, size |-> c.size]

\* canvas.toDataURL('image/png')
toDataURL(c) == [mime |-> "image/png", pixels |-> c.content, size |-> c.size]
Image(src) == [kind |-> "Image", src |-> src]

\* a canvas as created: detached, of the default size (<<>>), blank
NewCanvas == [attached |-> FALSE, size |-> <<>>, content |-> Blank]

\* ctx.drawImage(video, 0, 0, w, h): a picture is drawn when the video has one
\* and the destination rectangle is not empty
drawImage(c, d, w, h, picture) ==
  IF d = NoDims \/ w <= 0 \/ h <= 0 THEN c ELSE [c EXCEPT !.content = picture]

\* ctx.clearRect(0, 0, w, h), size being <<w, h>>
clearRect(c, size) == IF size = c.size THEN [c EXCEPT !.content = Blank] ELSE c

\* canvas.remove()
remove(c) == [c EXCEPT !.attached = FALSE]

\* fire(captureFrame, this, {imgData}): since is the time since the last
\* frame event, gap the time between the last two, rate the captureRate at
\* the last one
FrameEmitted(e, rate) == [since |-> 0, gap |-> e.since, rate |-> rate]

\* ------------------------------------------------------------------ Init
CaptureInit ==
  /\ captureScale = 1
  /\ captureRate = 0
  /\ capturePng = FALSE
  /\ paused = FALSE
  /\ stream = Undefined
  /\ video = Undefined
  /\ canvas = Undefined
  /\ ctx = Undefined
  /\ elapsed = 1
  /\ starts = 0
  /\ tracks = [s \in Sessions |-> 1..NumTracks]
  /\ cv = NewCanvas
  /\ dims = NoDims
  /\ startScale = [s \in Sessions |-> 0]
  /\ handler = [s \in Sessions |-> [pc |-> "none", frameCount |-> 0, waited |-> 0]]
  /\ pending = <<>>
  /\ running = <<>>
  /\ frame = 1
  /\ images = <<>>
  /\ emit = [since |-> Late, gap |-> Late, rate |-> 0]
  /\ op = Op("init", 0, "", NoEvents, NoResult)

Idle == running = <<>>

\* ------------------------------------------------------- the public fields
SetCaptureScale(k) ==
  /\ Idle /\ k # captureScale
  /\ captureScale' = k
  /\ op' = Op("set", 0, "", NoEvents, NoResult)
  /\ UNCHANGED <<captureRate, capturePng, paused, stream, video, canvas, ctx,
                 elapsed, starts, tracks, cv, dims, startScale,
                 handler, pending, running, frame, images, emit>>
  /\ UNCHANGED <<detectVars, demoVars>>

SetCaptureRate(r) ==
  /\ Idle /\ r # captureRate
  /\ captureRate' = r
  /\ op' = Op("set", 0, "", NoEvents, NoResult)
  /\ UNCHANGED <<captureScale, capturePng, paused, stream, video, canvas, ctx,
                 elapsed, starts, tracks, cv, dims, startScale,
                 handler, pending, running, frame, images, emit>>
  /\ UNCHANGED <<detectVars, demoVars>>

SetCapturePng(b) ==
  /\ Idle /\ b # capturePng
  /\ capturePng' = b
  /\ op' = Op("set", 0, "", NoEvents, NoResult)
  /\ UNCHANGED <<captureScale, captureRate, paused, stream, video, canvas, ctx,
                 elapsed, starts, tracks, cv, dims, startScale,
                 handler, pending, running, frame, images, emit>>
  /\ UNCHANGED <<detectVars, demoVars>>

SetPaused(b) ==
  /\ Idle /\ b # paused
  /\ paused' = b
  /\ op' = Op("set", 0, "", NoEvents, NoResult)
  /\ UNCHANGED <<captureScale, captureRate, capturePng, stream, video, canvas, ctx,
                 elapsed, starts, tracks, cv, dims, startScale,
                 handler, pending, running, frame, images, emit>>
  /\ UNCHANGED <<detectVars, demoVars>>

\* ----------------------------------------------------------------- start
\* initElementsIfNecessary(): ctxOk is whether canvas.getContext('2d')
\* returns a context; s names the elements it creates
initElementsIfNecessary(s, ctxOk) ==
  LET make == ~Truthy(canvas)
      failed == make /\ ~ctxOk
  IN /\ canvas' = IF make THEN s ELSE canvas
     /\ ctx' = IF make THEN (IF ctxOk THEN s ELSE NullCtx) ELSE ctx
     /\ cv' = IF make THEN [NewCanvas EXCEPT !.attached = ctxOk] ELSE cv
     /\ video' = IF ~failed /\ ~Truthy(video) THEN s ELSE video
     /\ dims' = IF ~failed /\ ~Truthy(video) THEN NoDims ELSE dims

\* if (this.stream), with a slip that forgets the test
HeldNever == FALSE

\* if (this.stream)
Held == Truthy(stream)

\* start(stream)
Start(ctxOk) ==
  /\ Idle
  /\ IF Held
       THEN /\ op' = Op("start", 0, "Stream already provided. Stop the capture first.",
                        NoEvents, NoResult)
            /\ UNCHANGED <<stream, video, canvas, ctx, starts, cv, dims, startScale,
                           handler>>
       ELSE /\ starts < MaxStarts
            /\ LET s == starts + 1
                   failed == ~Truthy(canvas) /\ ~ctxOk
               IN /\ starts' = s
                  /\ stream' = s
                  /\ initElementsIfNecessary(s, ctxOk)
                  /\ startScale' = IF failed THEN startScale
                                   ELSE [startScale EXCEPT ![s] = clamp(captureScale, 0)]
                  /\ handler' = IF failed THEN handler
                                ELSE [handler EXCEPT ![s].pc = "listening"]
                  /\ op' = Op("start", s,
                              IF failed THEN "Unable to create canvas context" ELSE "",
                              NoEvents, NoResult)
  /\ UNCHANGED <<captureScale, captureRate, capturePng, paused, elapsed, tracks,
                 pending, running, frame, images, emit>>
  /\ UNCHANGED <<detectVars, demoVars>>

\* ------------------------------------------------------------------ stop
\* a loop over getTracks() that stops the first track only
StopFirstTrack(live) == live \ {1}

\* for (const track of this.stream.getTracks()) track.stop(): the tracks left live
StopTracks(live) == {}

\* stop(), called as `name`
StopBody(name) ==
  IF ~Truthy(stream) \/ ~Truthy(ctx) \/ ~Truthy(canvas)
    THEN /\ op' = Op(name, 0, "", NoEvents, NoResult)
         /\ UNCHANGED <<stream, video, canvas, ctx, tracks, cv, dims>>
    ELSE /\ tracks' = [tracks EXCEPT ![stream] = StopTracks(@)]
         /\ cv' = remove(clearRect(cv, cv.size))
         /\ dims' = NoDims
         /\ video' = Undefined
         /\ stream' = Undefined
         /\ canvas' = Undefined
         /\ ctx' = Undefined
         /\ op' = Op(name, stream, "", <<Event("captureStopped", <<>>)>>, NoResult)

Stop ==
  /\ Idle
  /\ StopBody("stop")
  /\ UNCHANGED <<captureScale, captureRate, capturePng, paused, elapsed, starts,
                 startScale, handler, pending, running, frame, images, emit>>
  /\ UNCHANGED <<detectVars, demoVars>>

DisconnectedCallback ==
  /\ Idle
  /\ StopBody("stop")
  /\ UNCHANGED <<captureScale, captureRate, capturePng, paused, elapsed, starts,
                 startScale, handler, pending, running, frame, images, emit>>
  /\ UNCHANGED <<detectVars, demoVars>>

\* ------------------------------------------------------------ captureFrame
\* an onload that fires without looking at the rate
FiresOnLoadAlways == TRUE

\* if (this.captureRate !== 0), in imgData.onload
FiresOnLoad == captureRate # 0

\* if (this.captureRate !== 0), after getImageData
FiresOnCapture == captureRate # 0

\* The body of captureFrame() on the canvas in state c, called by `name`;
\* `after` is what the caller fires next in the same step.
CaptureBody(name, arg, c, after) ==
  IF ~Truthy(ctx) \/ ~Truthy(canvas)
    THEN /\ op' = Op(name, arg, "Unable to capture frame", after, NoResult)
         /\ UNCHANGED <<images, emit>>
    ELSE IF capturePng
      THEN /\ images' = Append(images, [src |-> toDataURL(c),
                                        shot |-> <<c.content, c.size>>])
           /\ op' = Op(name, arg, "", after, NoResult)
           /\ UNCHANGED emit
      ELSE LET imgData == getImageData(c, c.size)
               fires == FiresOnCapture
           IN /\ emit' = IF fires THEN FrameEmitted(emit, captureRate) ELSE emit
              /\ op' = Op(name, arg, "",
                          (IF fires THEN <<Event("captureFrame", imgData)>> ELSE <<>>)
                            \o after,
                          imgData)
              /\ UNCHANGED images

\* captureFrame() called by the page
CaptureFrame ==
  /\ Idle
  /\ capturePng => Len(images) < MaxImages
  /\ CaptureBody("captureFrame", 0, cv, NoEvents)
  /\ UNCHANGED <<captureScale, captureRate, capturePng, paused, stream, video, canvas,
                 ctx, elapsed, starts, tracks, cv, dims, startScale,
                 handler, pending, running, frame>>
  /\ UNCHANGED <<detectVars, demoVars>>

\* imgData.onload of the i-th image still loading
ImageLoaded(i) ==
  /\ Idle
  /\ i \in 1..Len(images)
  /\ LET img == images[i]
         imgData == Image(img.src)
         fires == FiresOnLoad
     IN /\ emit' = IF fires THEN FrameEmitted(emit, captureRate) ELSE emit
        /\ op' = Op("imageLoaded", img.shot, "",
                    IF fires THEN <<Event("captureFrame", imgData)>> ELSE <<>>, imgData)
  /\ images' = SubSeq(images, 1, i - 1) \o SubSeq(images, i + 1, Len(images))
  /\ UNCHANGED <<captureScale, captureRate, capturePng, paused, stream, video, canvas,
                 ctx, elapsed, starts, tracks, cv, dims, startScale,
                 handler, pending, running, frame>>
  /\ UNCHANGED <<detectVars, demoVars>>

\* ------------------------------------------------------- the platform
\* the metadata of the video arrives: its dimensions are populated
VideoMetadata(d) ==
  /\ Idle
  /\ Truthy(video) /\ tracks[video] # {} /\ dims = NoDims
  /\ dims' = d
  /\ op' = Op("metadata", video, "", NoEvents, NoResult)
  /\ UNCHANGED <<captureScale, captureRate, capturePng, paused, stream, video, canvas,
                 ctx, elapsed, starts, tracks, cv, startScale, handler,
                 pending, running, frame, images, emit>>
  /\ UNCHANGED <<detectVars, demoVars>>

\* an animation frame begins: the callbacks requested so far are its callbacks
BeginFrame ==
  /\ Idle
  /\ pending # <<>>
  /\ Len(images) < MaxImages
  /\ elapsed' = Later(elapsed)
  /\ emit' = [emit EXCEPT !.since = Later(@)]
  /\ frame' = (frame % NumFrames) + 1
  /\ running' = pending
  /\ pending' = <<>>
  /\ op' = Op("frame", 0, "", NoEvents, NoResult)
  /\ UNCHANGED <<captureScale, captureRate, capturePng, paused, stream, video, canvas,
                 ctx, starts, tracks, cv, dims, startScale, handler, images>>
  /\ UNCHANGED <<detectVars, demoVars>>

Callback(kind, s) == [kind |-> kind, s |-> s]

\* --------------------------------------------------- the 'playing' listener
\* a wait of one frame too many
FrameCountSix == 5 + 1

\* let frameCount = 5
FrameCountInit == 5

HasZero(d) == d[1] = 0 \/ d[2] = 0

\* the video of start() call s fires 'playing' (once: true)
Playing(s) ==
  /\ Idle
  /\ handler[s].pc = "listening"
  /\ IF ~Truthy(video) \/ ~Truthy(canvas) \/ ~Truthy(ctx)
       THEN /\ handler' = [handler EXCEPT ![s].pc = "returned"]
            /\ UNCHANGED pending
       ELSE /\ handler' = [handler EXCEPT ![s] = [pc |-> "waiting",
                                                  frameCount |-> FrameCountInit - 1,
                                                  waited |-> 0]]
            /\ pending' = Append(pending, Callback("wait", s))
  /\ op' = Op("playing", s, "", NoEvents, NoResult)
  /\ UNCHANGED <<captureScale, captureRate, capturePng, paused, stream, video, canvas,
                 ctx, elapsed, starts, tracks, cv, dims, startScale,
                 running, frame, images, emit>>
  /\ UNCHANGED <<detectVars, demoVars>>

\* The listener of start() call s resumes after an awaited animation frame.
\* handler[s].waited counts the frames it has waited for while it waits
\* (history); op.arg is <<s, that count>>.
WaitBody(s) ==
  LET waited == handler[s].waited + 1
      leave(pc) == [handler EXCEPT ![s] = [pc |-> pc, frameCount |-> 0, waited |-> 0]]
  IN IF ~Truthy(video) \/ ~Truthy(canvas)
    THEN /\ handler' = leave("typeError")
         /\ pending' = pending
         /\ op' = Op("wait", <<s, waited>>, "TypeError", NoEvents, NoResult)
         /\ UNCHANGED cv
    ELSE LET redoCheck == handler[s].frameCount > 0 /\ HasZero(dims)
         IN IF redoCheck
              THEN /\ handler' = [handler EXCEPT ![s].frameCount = @ - 1,
                                                ![s].waited = waited]
                   /\ pending' = Append(pending, Callback("wait", s))
                   /\ op' = Op("wait", <<s, waited>>, "", NoEvents, NoResult)
                   /\ UNCHANGED cv
              ELSE IF HasZero(dims)
                THEN /\ handler' = leave("zeroError")
                     /\ pending' = pending
                     /\ op' = Op("wait", <<s, waited>>, "Video has width or height of 0",
                                 NoEvents, NoResult)
                     /\ UNCHANGED cv
                ELSE /\ cv' = [cv EXCEPT !.size = <<dims[1] * captureScale,
                                                    dims[2] * captureScale>>,
                                         !.content = Blank]
                     /\ handler' = leave("sized")
                     /\ pending' = Append(pending, Callback("begin", s))
                     /\ op' = Op("wait", <<s, waited>>, "", NoEvents, NoResult)

RunWait ==
  /\ running # <<>>
  /\ Head(running).kind = "wait"
  /\ WaitBody(Head(running).s)
  /\ running' = Tail(running)
  /\ UNCHANGED <<captureScale, captureRate, capturePng, paused, stream, video, canvas,
                 ctx, elapsed, starts, tracks, dims, startScale, frame, images,
                 emit>>
  /\ UNCHANGED <<detectVars, demoVars>>

\* ------------------------------------------------------- the sampling loop
\* update(now) of the closure of start() call s, called by `name`; `after` is
\* what its caller fires next in the same callback
UpdateBody(name, s, after) ==
  IF ~Truthy(video) \/ ~Truthy(ctx)
    THEN /\ op' = Op(name, s, "", after, NoResult)
         /\ UNCHANGED <<cv, elapsed, images, emit, pending>>
    ELSE LET drawn == IF paused THEN cv
                      ELSE drawImage(cv, dims, dims[1] * startScale[s],
                                     dims[2] * startScale[s], frame)
             due == captureRate # 0 /\ elapsed > captureRate
         IN /\ cv' = drawn
            /\ pending' = Append(pending, Callback("update", s))
            /\ IF due
                 THEN /\ elapsed' = 0
                      /\ CaptureBody(name, s, drawn, after)
                 ELSE /\ op' = Op(name, s, "", after, NoResult)
                      /\ UNCHANGED <<elapsed, images, emit>>

\* the callback requested by the listener: update(now); fire(captureStarted)
RunBegin ==
  /\ running # <<>>
  /\ Head(running).kind = "begin"
  /\ UpdateBody("begin", Head(running).s, <<Event("captureStarted", <<>>)>>)
  /\ handler' = [handler EXCEPT ![Head(running).s].pc = "started"]
  /\ running' = Tail(running)
  /\ UNCHANGED <<captureScale, captureRate, capturePng, paused, stream, video, canvas,
                 ctx, starts, tracks, dims, startScale, frame>>
  /\ UNCHANGED <<detectVars, demoVars>>

\* the callback requested by update: update(now)
RunUpdate ==
  /\ running # <<>>
  /\ Head(running).kind = "update"
  /\ UpdateBody("update", Head(running).s, NoEvents)
  /\ running' = Tail(running)
  /\ UNCHANGED <<captureScale, captureRate, capturePng, paused, stream, video, canvas,
                 ctx, starts, tracks, dims, startScale, handler, frame>>
  /\ UNCHANGED <<detectVars, demoVars>>

\* =================================================== detect (barcode wrapper)
Contexts == {"window", "mock"}
\* what detector.detect(data) resolves to
Barcodes == {<<>>, <<"code">>}
\* what detector.detect(data) rejects with
Failures == {[message |-> "NotSupportedError"]}

NoCall == [pc |-> "none", context |-> "window", force |-> FALSE, awaited |-> 0,
           used |-> 0, failure |-> "", rejection |-> "", warned |-> "", result |-> <<>>]

DetectInit ==
  /\ detector = 0
  /\ detectors = <<>>
  /\ hasBarcodeDetector \in BOOLEAN
  /\ calls = [c \in 1..MaxCalls |-> NoCall]

\* a wrapper that never waits for the polyfill
MustLoadNever(context) == FALSE

\* context === window && !('BarcodeDetector' in context)
MustLoadPolyfill(context) == context = "window" /\ ~hasBarcodeDetector

\* a wrapper that forgets its memoized detector
NeedsDetectorAlways(force) == TRUE

\* !detector || forceNewDetector
NeedsDetector(force) == detector = 0 \/ force

\* whether `new context.BarcodeDetector()` finds a constructor
HasConstructor(context, has) == context = "mock" \/ has

\* detect() of call c from the test of `detector` to its next await: has is
\* 'BarcodeDetector' in window by then, isReady whether a detector constructed
\* here has an isReady promise
Continue(c, call, has, isReady) ==
  IF NeedsDetector(call.force) /\ ~HasConstructor(call.context, has)
    THEN /\ calls' = [calls EXCEPT ![c] = [call EXCEPT !.pc = "threw",
                        !.failure = "BarcodeDetector is not a constructor"]]
         /\ UNCHANGED <<detector, detectors>>
    ELSE LET made == NeedsDetector(call.force)
             d == IF made THEN Len(detectors) + 1 ELSE detector
             all == IF made
                      THEN Append(detectors, [context |-> call.context, isReady |-> isReady,
                                              ready |-> ~isReady, by |-> c,
                                              memoized |-> detector, forced |-> call.force])
                      ELSE detectors
         IN /\ detector' = d
            /\ detectors' = all
            /\ calls' = [calls EXCEPT ![c] =
                  IF all[d].isReady
                    THEN [call EXCEPT !.pc = "awaitReady", !.awaited = d]
                    ELSE [call EXCEPT !.pc = "detecting", !.used = d]]

\* detect(data, {context, forceNewDetector}) is called
Detect(context, force, isReady) ==
  /\ \E c \in 1..MaxCalls :
       /\ calls[c].pc = "none"
       /\ \A b \in 1..(c - 1) : calls[b].pc # "none"
       /\ LET call == [NoCall EXCEPT !.context = context, !.force = force]
          IN IF MustLoadPolyfill(context)
               THEN /\ calls' = [calls EXCEPT ![c] = [call EXCEPT !.pc = "injecting",
                                   !.warned = "Native barcode detector unavailable"]]
                    /\ UNCHANGED <<detector, detectors>>
               ELSE Continue(c, call, hasBarcodeDetector, isReady)
  /\ context = "window" => isReady = FALSE
  /\ UNCHANGED hasBarcodeDetector
  /\ UNCHANGED <<captureVars, demoVars>>

\* injectScript() of call c resolves: the polyfill has defined BarcodeDetector,
\* whose instances have an isReady promise
PolyfillLoaded(c) ==
  /\ calls[c].pc = "injecting"
  /\ hasBarcodeDetector' = TRUE
  /\ Continue(c, calls[c], TRUE, TRUE)
  /\ UNCHANGED <<captureVars, demoVars>>

\* injectScript() of call c rejects
PolyfillFailed(c) ==
  /\ calls[c].pc = "injecting"
  /\ calls' = [calls EXCEPT ![c].pc = "rejected", ![c].failure = "script"]
  /\ UNCHANGED <<detector, detectors, hasBarcodeDetector>>
  /\ UNCHANGED <<captureVars, demoVars>>

\* the isReady promise of detector d resolves
DetectorReady(d) ==
  /\ d \in 1..Len(detectors)
  /\ ~detectors[d].ready
  /\ detectors' = [detectors EXCEPT ![d].ready = TRUE]
  /\ UNCHANGED <<detector, hasBarcodeDetector, calls>>
  /\ UNCHANGED <<captureVars, demoVars>>

\* call c resumes after `await detector.isReady` and calls detector.detect(data)
ReadyResumed(c) ==
  /\ calls[c].pc = "awaitReady"
  /\ detectors[calls[c].awaited].ready
  /\ calls' = [calls EXCEPT ![c].pc = "detecting", ![c].used = detector]
  /\ UNCHANGED <<detector, detectors, hasBarcodeDetector>>
  /\ UNCHANGED <<captureVars, demoVars>>

\* a catch that logs and throws again
CatchRethrow(call, e) ==
  [call EXCEPT !.pc = "rejected", !.warned = "Detection failed: " \o e.message]

\* what detect() does when detector.detect(data) rejects with e
Catch(call, e) ==
  [call EXCEPT !.pc = "resolved", !.warned = "Detection failed: " \o e.message,
               !.result = <<>>]

\* detector.detect(data) of call c resolves with found
DetectResolved(c, found) ==
  /\ calls[c].pc = "detecting"
  /\ calls' = [calls EXCEPT ![c].pc = "resolved", ![c].result = found]
  /\ UNCHANGED <<detector, detectors, hasBarcodeDetector>>
  /\ UNCHANGED <<captureVars, demoVars>>

\* detector.detect(data) of call c rejects with e
DetectRejected(c, e) ==
  /\ calls[c].pc = "detecting"
  /\ calls' = [calls EXCEPT ![c] = Catch([calls[c] EXCEPT !.rejection = e.message], e)]
  /\ UNCHANGED <<detector, detectors, hasBarcodeDetector>>
  /\ UNCHANGED <<captureVars, demoVars>>

\* ============================================================ the demo page
\* what evt.detail.found holds
Found == {<<>>, <<"arContent">>}
NotRecognizedSrc == "Sorry, this item was not recognized."
DeniedSrc == "Camera unavailable or access denied"

NoRun == [pc |-> "none", onboarded |-> FALSE, onboarding |-> FALSE, prior |-> 0]
\* init() has returned
Completed == {"embedded", "listening"}

DemoInit ==
  /\ onboardedStore = FALSE
  /\ runs = [r \in 1..MaxRuns |-> NoRun]
  /\ cards = [r \in 1..MaxRuns |-> <<>>]
  /\ evt = [type |-> "none", run |-> 0, prevented |-> FALSE]

Card(src, notRecognized, by) == [src |-> src, notRecognized |-> notRecognized, by |-> by]

\* the page is loaded and calls init(): await idbKeyval.get('onboarded')
InitCalled ==
  /\ \E r \in 1..MaxRuns :
       /\ runs[r].pc = "none"
       /\ \A a \in 1..(r - 1) : runs[a].pc # "none"
       /\ runs' = [runs EXCEPT ![r].pc = "getting",
                                ![r].prior = Cardinality({a \in 1..MaxRuns :
                                                           runs[a].pc \in Completed})]
  /\ UNCHANGED <<onboardedStore, cards, evt>>
  /\ UNCHANGED <<captureVars, detectVars>>

\* a configuration that always shows the onboarding
OnboardingAlways(onboarded) == TRUE

\* onboarding: !onboarded
Onboarding(onboarded) == ~onboarded

\* init() from the assignment of the configuration to its end
Configured(run) == [run EXCEPT !.pc = "embedded", !.onboarding = Onboarding(run.onboarded)]

\* idbKeyval.get('onboarded') of run r resolves
GetResolved(r) ==
  /\ runs[r].pc = "getting"
  /\ LET run == [runs[r] EXCEPT !.onboarded = onboardedStore]
     IN runs' = [runs EXCEPT ![r] = IF ~run.onboarded THEN [run EXCEPT !.pc = "setting"]
                                    ELSE Configured(run)]
  /\ UNCHANGED <<onboardedStore, cards, evt>>
  /\ UNCHANGED <<captureVars, detectVars>>

\* idbKeyval.set('onboarded', true) of run r resolves
SetResolved(r) ==
  /\ runs[r].pc = "setting"
  /\ onboardedStore' = TRUE
  /\ runs' = [runs EXCEPT ![r] = Configured(runs[r])]
  /\ UNCHANGED <<cards, evt>>
  /\ UNCHANGED <<captureVars, detectVars>>

\* idbKeyval.get or idbKeyval.set of run r rejects: init() rejects
IdbRejected(r) ==
  /\ runs[r].pc \in {"getting", "setting"}
  /\ runs' = [runs EXCEPT ![r].pc = "rejected"]
  /\ UNCHANGED <<onboardedStore, cards, evt>>
  /\ UNCHANGED <<captureVars, detectVars>>

\* the toolkit has loaded and calls config.onload(): addEventListeners()
ToolkitLoaded(r) ==
  /\ runs[r].pc = "embedded"
  /\ runs' = [runs EXCEPT ![r].pc = "listening"]
  /\ UNCHANGED <<onboardedStore, cards, evt>>
  /\ UNCHANGED <<captureVars, detectVars>>

\* cardContainer.querySelector('[data-not-recognized]').remove(), if any
RemoveNotRecognized(children) ==
  IF \E i \in 1..Len(children) : children[i].notRecognized
    THEN LET i == CHOOSE i \in 1..Len(children) :
                    /\ children[i].notRecognized
                    /\ \A j \in 1..(i - 1) : ~children[j].notRecognized
         IN SubSeq(children, 1, i - 1) \o SubSeq(children, i + 1, Len(children))
    ELSE children

\* a listener that does not look at the container
HasChildrenNever(children) == FALSE

\* cardContainer.childNodes.length > 0
HasChildren(children) == Len(children) > 0

\* the PerceivedResults listener of the page of run r, for evt.detail.found
PerceivedResults(r, found) ==
  /\ runs[r].pc = "listening"
  /\ LET kept == IF Len(found) # 0 THEN RemoveNotRecognized(cards[r]) ELSE cards[r]
     IN IF HasChildren(kept)
          THEN /\ cards' = [cards EXCEPT ![r] = kept]
               /\ evt' = [type |-> "PerceivedResults", run |-> r, prevented |-> FALSE]
          ELSE /\ cards' = [cards EXCEPT ![r] =
                    Append(kept, IF Len(found) = 0
                                   THEN Card(NotRecognizedSrc, TRUE, "PerceivedResults")
                                   ELSE Card(found[1], FALSE, "PerceivedResults"))]
               /\ evt' = [type |-> "PerceivedResults", run |-> r, prevented |-> TRUE]
  /\ UNCHANGED <<onboardedStore, runs>>
  /\ UNCHANGED <<captureVars, detectVars>>

\* the CameraAccessDenied listener of the page of run r
CameraAccessDenied(r) ==
  /\ runs[r].pc = "listening"
  /\ Len(cards[r]) < MaxCards
  /\ cards' = [cards EXCEPT ![r] = Append(@, Card(DeniedSrc, FALSE, "CameraAccessDenied"))]
  /\ evt' = [type |-> "CameraAccessDenied", run |-> r, prevented |-> FALSE]
  /\ UNCHANGED <<onboardedStore, runs>>
  /\ UNCHANGED <<captureVars, detectVars>>

\* the user closes the i-th card of the page of run r
CardClosed(r, i) ==
  /\ i \in 1..Len(cards[r])
  /\ cards' = [cards EXCEPT ![r] = SubSeq(@, 1, i - 1) \o SubSeq(@, i + 1, Len(@))]
  /\ evt' = [type |-> "close", run |-> r, prevented |-> FALSE]
  /\ UNCHANGED <<onboardedStore, runs>>
  /\ UNCHANGED <<captureVars, detectVars>>

\* ========================================================== specifications
vars == <<captureVars, detectVars, demoVars>>

\* the element is studied in a browser with a native BarcodeDetector, and the
\* wrapper in a browser with or without one
Init == CaptureInit /\ DetectInit /\ DemoInit /\ hasBarcodeDetector

InitDetect == CaptureInit /\ DetectInit /\ DemoInit

\* The element with the page setting captureScale at any time and
\* captureRate before the first start(); ImageData captures.
Next ==
  \/ \E k \in ScaleValues : SetCaptureScale(k)
  \/ \E r \in RateValues : starts = 0 /\ SetCaptureRate(r)
  \/ \E ok \in BOOLEAN : Start(ok)
  \/ Stop
  \/ DisconnectedCallback
  \/ CaptureFrame
  \/ \E d \in VideoSizes : VideoMetadata(d)
  \/ BeginFrame
  \/ \E s \in Sessions : Playing(s)
  \/ RunWait
  \/ RunBegin
  \/ RunUpdate

Spec == Init /\ [][Next]_vars

\* The element with the page setting captureRate and capturePng at any time.
NextSampling ==
  \/ \E r \in RateValues : SetCaptureRate(r)
  \/ \E b \in BOOLEAN : SetCapturePng(b)
  \/ \E ok \in BOOLEAN : Start(ok)
  \/ Stop
  \/ DisconnectedCallback
  \/ CaptureFrame
  \/ \E i \in 1..MaxImages : ImageLoaded(i)
  \/ \E d \in VideoSizes : VideoMetadata(d)
  \/ BeginFrame
  \/ \E s \in Sessions : Playing(s)
  \/ RunWait
  \/ RunBegin
  \/ RunUpdate

SpecSampling == Init /\ [][NextSampling]_vars

\* The element with the page setting paused at any time and captureRate
\* before the first start().
NextPaused ==
  \/ \E b \in BOOLEAN : SetPaused(b)
  \/ \E r \in RateValues : starts = 0 /\ SetCaptureRate(r)
  \/ \E ok \in BOOLEAN : Start(ok)
  \/ Stop
  \/ DisconnectedCallback
  \/ CaptureFrame
  \/ \E d \in VideoSizes : VideoMetadata(d)
  \/ BeginFrame
  \/ \E s \in Sessions : Playing(s)
  \/ RunWait
  \/ RunBegin
  \/ RunUpdate

SpecPaused == Init /\ [][NextPaused]_vars

\* The barcode wrapper under any interleaving of its calls.
NextDetect ==
  \/ \E context \in Contexts, force \in BOOLEAN, isReady \in BOOLEAN :
       Detect(context, force, isReady)
  \/ \E c \in 1..MaxCalls : PolyfillLoaded(c)
  \/ \E c \in 1..MaxCalls : PolyfillFailed(c)
  \/ \E d \in 1..MaxCalls : DetectorReady(d)
  \/ \E c \in 1..MaxCalls : ReadyResumed(c)
  \/ \E c \in 1..MaxCalls, found \in Barcodes : DetectResolved(c, found)
  \/ \E c \in 1..MaxCalls, e \in Failures : DetectRejected(c, e)

SpecDetect == InitDetect /\ [][NextDetect]_vars

\* The demo page over its loads, the events of each page and the user.
NextDemo ==
  \/ InitCalled
  \/ \E r \in 1..MaxRuns : GetResolved(r)
  \/ \E r \in 1..MaxRuns : SetResolved(r)
  \/ \E r \in 1..MaxRuns : IdbRejected(r)
  \/ \E r \in 1..MaxRuns : ToolkitLoaded(r)
  \/ \E r \in 1..MaxRuns, found \in Found : PerceivedResults(r, found)
  \/ \E r \in 1..MaxRuns : CameraAccessDenied(r)
  \/ \E r \in 1..MaxRuns, i \in 1..MaxCards : CardClosed(r, i)

SpecDemo == Init /\ [][NextDemo]_vars

\* ================================================================== claims
AlreadyProvided == "Stream already provided. Stop the capture first."
ZeroVideo == "Video has width or height of 0"
Callbacks == pending \o running

\* C1: start(stream) while a stream is held throws 'Stream already provided.
\* Stop the capture first.' and leaves stream, video, canvas and ctx as they
\* were.
C1_StartTwiceThrows ==
  [][(op'.name = "start" /\ Truthy(stream))
       => (op'.threw = AlreadyProvided /\ UNCHANGED <<stream, video, canvas, ctx>>)]_vars

C1_Witness == op.name = "start" /\ op.threw = AlreadyProvided /\ Truthy(video)

\* C2: stop() with a stream, a canvas and a context held stops every track of
\* the stream, clears and removes the canvas, resets stream, video, canvas
\* and ctx and fires captureStopped once; stop() with no stream held changes
\* nothing and fires nothing.
C2_StopHaltsAndClears ==
  [][op'.name = "stop"
       => /\ (Truthy(stream) /\ Truthy(ctx) /\ Truthy(canvas))
               => /\ tracks'[stream] = {}
                  /\ cv'.content = Blank /\ ~cv'.attached
                  /\ stream' = Undefined /\ video' = Undefined
                  /\ canvas' = Undefined /\ ctx' = Undefined
                  /\ op'.fired = <<Event("captureStopped", <<>>)>>
          /\ ~Truthy(stream)
               => /\ op'.fired = NoEvents
                  /\ UNCHANGED <<captureScale, captureRate, capturePng, paused, stream,
                                 video, canvas, ctx, elapsed, starts, tracks, cv, dims,
                                 startScale, handler, pending, running, frame, images,
                                 emit>>]_vars

C2_Witness ==
  /\ op.name = "stop" /\ Fired("captureStopped")
  /\ tracks[op.arg] = {} /\ stream = Undefined
  /\ \E i \in 1..Len(pending) : pending[i].kind = "update"

\* C3: for a capture rate R > 0, two consecutive frame events are more than R
\* apart, whatever the page calls.
C3_FrameEventsRateLimited == emit.rate > 0 => emit.gap > emit.rate

\* C4: a detector is constructed only when none is memoized or the call
\* forces it; calls that never force construct at most one detector, however
\* they interleave.
C4_OneDetectorUnlessForced ==
  /\ \A d \in 1..Len(detectors) : detectors[d].memoized = 0 \/ detectors[d].forced
  /\ (\A c \in 1..MaxCalls : ~calls[c].force) => Len(detectors) <= 1

C4_Witness ==
  /\ Len(detectors) = 1
  /\ \A c \in 1..MaxCalls : ~calls[c].force
  /\ \E a, b \in 1..MaxCalls :
       /\ a # b
       /\ calls[a].pc = "awaitReady" /\ calls[b].pc = "awaitReady"
       /\ calls[a].warned # "" /\ calls[b].warned # ""

\* C5: when detector.detect(data) rejects, detect() resolves to the empty
\* list; the failure does not reach the caller.
C5_FailureGivesEmptyList ==
  \A c \in 1..MaxCalls :
    calls[c].rejection # "" => (calls[c].pc = "resolved" /\ calls[c].result = <<>>)

C5_Witness == \E c \in 1..MaxCalls : calls[c].rejection # "" /\ calls[c].pc = "resolved"

\* C6: the listener sizes the canvas to videoWidth * captureScale by
\* videoHeight * captureScale; the canvas is sized before the sampling loop
\* draws on it and before captureStarted is fired.
C6_SizedBeforeDrawnAndStarted ==
  /\ (op.name = "wait" /\ handler[op.arg[1]].pc = "sized")
       => cv.size = <<dims[1] * captureScale, dims[2] * captureScale>>
  /\ (Truthy(ctx) /\ cv.content # Blank) => cv.size # <<>>
  /\ (Truthy(ctx) /\ Fired("captureStarted")) => cv.size # <<>>

\* C7: captureFrame() without capturePng resolves to the pixel data of the
\* whole canvas as it is at the call; with capturePng it resolves, when the
\* image has loaded, to an image whose source is the PNG data URL of the
\* canvas as it was at the call.
PngOf(shot) == [mime |-> "image/png", pixels |-> shot[1], size |-> shot[2]]

C7_CaptureFrameReturnsCanvas ==
  /\ (op.name = "captureFrame" /\ op.threw = "" /\ ~capturePng)
       => op.result = [kind |-> "ImageData", pixels |-> cv.content, size |-> cv.size]
  /\ (op.name \in {"update", "begin"} /\ Fired("captureFrame"))
       => op.fired[1].detail = [kind |-> "ImageData", pixels |-> cv.content,
                                size |-> cv.size]
  /\ (op.name = "captureFrame" /\ op.threw = "" /\ capturePng)
       => /\ op.result = NoResult
          /\ Len(images) > 0
          /\ images[Len(images)].shot = <<cv.content, cv.size>>
  /\ \A i \in 1..Len(images) : images[i].src = PngOf(images[i].shot)
  /\ op.name = "imageLoaded" => op.result = [kind |-> "Image", src |-> PngOf(op.arg)]

C7_Witness ==
  /\ op.name = "imageLoaded"
  /\ op.arg[1] # Blank
  /\ Truthy(canvas) /\ cv.content # Blank /\ cv.content # op.arg[1]

\* C8: while captureRate is 0 no frame event is emitted: the loop does not
\* call captureFrame(), a captureFrame() of the page resolves with the frame
\* and fires nothing, and a PNG that loads fires nothing.
C8_NoEventAtRateZero ==
  /\ Fired("captureFrame") => captureRate # 0
  /\ (op.name = "captureFrame" /\ op.threw = "" /\ ~capturePng /\ captureRate = 0)
       => (op.result # NoResult /\ op.fired = NoEvents)
  /\ (op.name \in {"update", "begin"} /\ captureRate = 0)
       => (elapsed > 0 /\ op.result = NoResult)
  /\ (op.name = "imageLoaded" /\ captureRate = 0)
       => (op.result # NoResult /\ op.fired = NoEvents)

C8_Witness ==
  /\ op.name = "imageLoaded" /\ captureRate = 0
  /\ op.fired = NoEvents /\ op.result # NoResult
  /\ \E i \in 1..Len(pending) : pending[i].kind = "update"

\* C9: with no native BarcodeDetector, detect() constructs and uses a detector
\* only after the polyfill has loaded.
C9_DetectorAfterPolyfill ==
  \A c \in 1..MaxCalls :
    calls[c].context = "window"
      => /\ calls[c].pc # "threw"
         /\ calls[c].pc \in {"awaitReady", "detecting", "resolved"} => hasBarcodeDetector
         /\ calls[c].pc = "injecting" => (calls[c].awaited = 0 /\ calls[c].used = 0)

C9_Witness ==
  \E c \in 1..MaxCalls :
    /\ calls[c].context = "window" /\ calls[c].warned = "Native barcode detector unavailable"
    /\ calls[c].pc = "detecting" /\ detectors[calls[c].used].by = c

\* C10: the listener waits for one to five animation frames and stops waiting
\* at the first after which both dimensions are non-zero; with a zero
\* dimension after the fifth it raises 'Video has width or height of 0' and
\* then does nothing more.
C10_State ==
  /\ op.name = "wait" => op.arg[2] \in 1..5
  /\ \A s \in Sessions :
       /\ handler[s].pc = "waiting" => handler[s].waited < 5
       /\ (op.name = "wait" /\ op.arg[1] = s /\ handler[s].pc = "waiting")
            => HasZero(dims)
       /\ (op.name = "wait" /\ op.arg[1] = s /\ handler[s].pc = "sized")
            => ~HasZero(dims)
       /\ (op.name = "wait" /\ op.arg[1] = s /\ op.threw = ZeroVideo)
            => (op.arg[2] = 5 /\ HasZero(dims) /\ handler[s].pc = "zeroError")
       /\ (op.name = "wait" /\ op.arg = <<s, 5>> /\ Truthy(video) /\ HasZero(dims))
            => op.threw = ZeroVideo
       /\ handler[s].pc = "zeroError"
            => \A i \in 1..Len(Callbacks) : Callbacks[i].s # s

C10_WaitsOneToFiveFrames ==
  /\ []C10_State
  /\ [][\A s \in Sessions :
          handler[s].pc = "zeroError" => handler'[s].pc = "zeroError"]_vars

C10_Witness ==
  /\ op.name = "wait" /\ op.threw = ZeroVideo
  /\ handler[op.arg[1]].pc = "zeroError"

\* C11: the scale of a session is captureScale clamped below at 0, and the
\* canvas is sized with the scale the session's loop draws with, also when
\* captureScale changes between start() and the 'playing' event.
C11_OneScalePerSession ==
  /\ \A s \in Sessions : startScale[s] >= 0
  /\ (op.name = "start" /\ op.threw = "") => startScale[op.arg] = clamp(captureScale, 0)
  /\ (op.name = "wait" /\ handler[op.arg[1]].pc = "sized")
       => cv.size = <<dims[1] * startScale[op.arg[1]], dims[2] * startScale[op.arg[1]]>>

\* C12: while paused is true the loop does not draw, so the canvas of the
\* session keeps the content it had; the loop keeps running and its frame
\* events carry that content; with paused false the loop draws the frame the
\* video shows.
C12_PausedFreezesCanvas ==
  [][/\ (op'.name \in {"update", "begin"} /\ paused) => cv' = cv
     /\ (paused /\ paused' /\ Truthy(stream) /\ stream' = stream)
          => cv'.content = cv.content
     /\ (op'.name \in {"update", "begin"} /\ paused /\ Truthy(video) /\ Truthy(ctx))
          => /\ Len(pending') > 0 /\ pending'[Len(pending')].kind = "update"
             /\ \A i \in 1..Len(op'.fired) :
                  op'.fired[i].type = "captureFrame"
                    => op'.fired[i].detail.pixels = cv.content
     /\ (op'.name \in {"update", "begin"} /\ ~paused /\ Truthy(video) /\ Truthy(ctx)
           /\ dims # NoDims)
          => cv'.content = frame]_vars

\* C13: the PerceivedResults listener first removes a not-recognized card
\* when found is not empty, then appends a card and calls preventDefault only
\* if the container has no children; a container never holds two cards made
\* by this listener, nor a not-recognized card together with a result card.
HandlerCards(children) ==
  {i \in 1..Len(children) : children[i].by = "PerceivedResults"}

C13_State ==
  \A r \in 1..MaxRuns :
    /\ Cardinality(HandlerCards(cards[r])) <= 1
    /\ ~\E i, j \in HandlerCards(cards[r]) :
          cards[r][i].notRecognized /\ ~cards[r][j].notRecognized
    /\ (evt.type = "PerceivedResults" /\ evt.run = r /\ evt.prevented)
         => (Len(cards[r]) = 1 /\ cards[r][1].by = "PerceivedResults")

C13_OneCardPerContainer ==
  /\ []C13_State
  /\ [][\A r \in 1..MaxRuns :
          (evt'.type = "PerceivedResults" /\ evt'.run = r /\ <<evt, cards>>' # <<evt, cards>>)
            => /\ evt'.prevented
                    => /\ Len(cards[r]) <= 1
                       /\ \A i \in 1..Len(cards[r]) :
                            cards[r][i].notRecognized /\ ~cards'[r][1].notRecognized
               /\ ~evt'.prevented
                    => /\ Len(cards'[r]) > 0
                       /\ Len(cards'[r]) <= Len(cards[r])
                       /\ \A i \in 1..Len(cards'[r]) :
                            \E j \in 1..Len(cards[r]) : cards'[r][i] = cards[r][j]]_vars

C13_Witness ==
  \E r \in 1..MaxRuns :
    /\ evt.type = "PerceivedResults" /\ evt.run = r /\ ~evt.prevented
    /\ Len(cards[r]) = 2
    /\ cards[r][1].by = "PerceivedResults" /\ cards[r][2].by = "CameraAccessDenied"

\* C14: config.onboarding is true exactly when no 'onboarded' flag was stored
\* when init() read it; a completed init() has stored the flag, which is
\* never reset, so a run that begins after a completed run has onboarding
\* false.
C14_OnboardingOnce ==
  /\ [](\A r \in 1..MaxRuns :
          runs[r].pc \in Completed
            => /\ runs[r].onboarding = ~runs[r].onboarded
               /\ onboardedStore
               /\ runs[r].prior > 0 => ~runs[r].onboarding)
  /\ [][/\ onboardedStore => onboardedStore'
        /\ \A r \in 1..MaxRuns :
             (runs[r].pc = "getting" /\ runs'[r].pc # "getting" /\ runs'[r].pc # "rejected")
               => runs'[r].onboarded = onboardedStore]_vars

C14_Witness ==
  /\ runs[1].pc \in Completed /\ runs[1].onboarding
  /\ runs[2].pc \in Completed /\ runs[2].prior = 1 /\ ~runs[2].onboarding

\* C15: at most one sampling loop is scheduled at any time: the callbacks
\* requested for animation frames hold at most one call of update.
Loops == {i \in 1..Len(Callbacks) : Callbacks[i].kind = "update"}

C15_AtMostOneLoop == Cardinality(Loops) <= 1

\* C16: captureStarted is fired before any frame event of its session: the
\* callback that fires captureStarted has fired nothing before it.
C16_StartedBeforeFrames ==
  Fired("captureStarted") => op.fired[1].type = "captureStarted"

\* C17: a start() that throws because the canvas has no 2D context leaves
\* the element holding no stream.
C17_FailedStartHoldsNothing ==
  (op.name = "start" /\ op.threw = "Unable to create canvas context")
    => ~Truthy(stream)

\* C18: a listener that resumes after stop() ends without an error, and a
\* listener whose session has been stopped sizes no canvas and starts no
\* loop.
C18_StopDuringWait ==
  op.name = "wait"
    => /\ op.threw # "TypeError"
       /\ handler[op.arg[1]].pc = "sized" => stream = op.arg[1]

\* C19: a call of detect() calls detect(data) on the detector whose isReady
\* promise it has awaited.
C19_UsesAwaitedDetector ==
  \A c \in 1..MaxCalls :
    (calls[c].used # 0 /\ detectors[calls[c].used].isReady)
      => calls[c].awaited = calls[c].used
====
